---- MODULE Spec2Model ----
(***************************************************************************)
(* Weakly connected components by label propagation over a partitioned     *)
(* graph: examples/analytical_apps/cc/wcc.h (class WCC: PEval, IncEval,     *)
(* PropagateLabelPush).                                                     *)
(*                                                                          *)
(* A vertex is named by its global identifier (gid), so V is both the set   *)
(* of vertices and the domain of labels.  Every fragment (partition) keeps  *)
(* its own comp_id, curr_modified and next_modified.  Inside a superstep    *)
(* the worker threads of a fragment interleave at the level of single       *)
(* memory accesses of the lambdas (the read of comp_id[v], the comparison   *)
(* comp_id[u] > cid, atomic_min, Insert); the ForEach and ParallelProcess   *)
(* calls end with a join of all threads.                                    *)
(***************************************************************************)
EXTENDS Integers, FiniteSets, Sequences, Bags, TLC

\* ------------------------------------------------------------------ bounds
NumV == 3
NumFrag == 3
MaxEdges == 3
MaxDup == 1
MaxThreads == 3
\* A cap on the supersteps of a run, so that a run that does not end is a
\* finite one that stops short of the end.  No run of the code gets there: a
\* label crosses the graph in fewer supersteps than there are vertices.
MaxRound == NumV + 2

V == 1..NumV
F == 1..NumFrag

\* comp_id entries before PEval has assigned them (never read by the code).
NoLabel == 0

VARIABLES
  edges,          \* the undirected multigraph: unordered pair -> multiplicity
  owner,          \* vertex -> the fragment that holds it as an inner vertex
  comp_id,        \* ctx.comp_id of every fragment
  curr_modified,  \* ctx.curr_modified of every fragment
  next_modified,  \* ctx.next_modified of every fragment
  pc,             \* where every fragment's PEval / IncEval stands
  task,           \* the ForEach lambda of PropagateLabelPush, per frontier vertex
  inbox,          \* messages delivered to a fragment and not yet taken by a thread
  pending,        \* messages whose comparison succeeded; atomic_min is still to run
  outbox,         \* messages sent in the running superstep
  force,          \* whether the fragment called ForceContinue in this superstep
  round,          \* number of supersteps started (PEval is the first)
  passStart,      \* comp_id of the fragment when its propagation pass started
  recvStart,      \* comp_id, curr_modified and inbox when message application started
  late,           \* copies the channel will deliver again in a later superstep
  dups,           \* number of duplications the channel has made
  lateSeen,       \* a copy was delivered in a superstep after the original's
  inserted,       \* the vertices next_modified.Insert was called with in the superstep
  cas             \* the threads inside atomic_min on one entry, and the entry

vars == <<edges, owner, comp_id, curr_modified, next_modified, pc, task, inbox,
          pending, outbox, force, round, passStart, recvStart, late, dups,
          lateSeen, inserted, cas>>

\* ------------------------------------------------------------- the graph
Pairs == {p \in V \X V : p[1] <= p[2]}

RECURSIVE Graphs(_)
Graphs(k) ==
  IF k = 0 THEN {[p \in Pairs |-> 0]}
  ELSE LET G == Graphs(k - 1)
       IN  G \cup {[g EXCEPT ![p] = @ + 1] : g \in G, p \in Pairs}

GraphSet == Graphs(MaxEdges)

Mult(u, v) == edges[IF u <= v THEN <<u, v>> ELSE <<v, u>>]

\* frag.GetOutgoingAdjList(v): neighbour -> number of entries in the list
GetOutgoingAdjList(v) == [u \in V |-> Mult(v, u)]

InnerVertices(f) == {v \in V : owner[v] = f}

OuterVertices(f) ==
  {u \in V \ InnerVertices(f) : \E v \in InnerVertices(f) : Mult(v, u) > 0}

Vertices(f) == InnerVertices(f) \cup OuterVertices(f)

\* The assignments of the vertices to fragments.  The code never reads a
\* fragment's number, so of the assignments that differ only by a renumbering
\* of the fragments one is kept: a vertex is put in a fragment already in use
\* or in the first unused one.
MaxOf(S) == CHOOSE x \in S : \A y \in S : y <= x

MinOf(S) == CHOOSE x \in S : \A y \in S : x <= y

Partitions ==
  {o \in [V -> F] : \A v \in V : o[v] <= 1 + MaxOf({0} \cup {o[w] : w \in 1..(v - 1)})}

\* The fragments of the run: the job has one worker per fragment in use.
Frags == {owner[v] : v \in V}

GetInnerVertexGid(v) == v

GetOuterVertexGid(v) == v

\* ------------------------------------------------------------ primitives
\* A plain store in place of the minimum.
AtomicMinStore(x, c) == c

atomic_min(x, c) == IF c < x THEN c ELSE x

IdleTask == [st |-> "idle", cid |-> 0, u |-> 0, todo |-> [x \in V |-> 0]]

\* No thread is inside atomic_min: the calls are single steps of the model.
NoCas == [cell |-> NoLabel, init |-> NoLabel, thr |-> <<>>]

NoSnapshot == [comp |-> [v \in V |-> NoLabel], curr |-> {}, inbox |-> EmptyBag]

TypeOK ==
  /\ edges \in GraphSet
  /\ owner \in [V -> F]
  /\ comp_id \in [F -> [V -> 0..NumV]]
  /\ curr_modified \in [F -> SUBSET V]
  /\ next_modified \in [F -> SUBSET V]
  /\ pc \in [F -> {"peval", "push", "send", "finish", "done", "inceval", "process", "halt"}]
  /\ force \in [F -> BOOLEAN]
  /\ round \in Nat

Init ==
  /\ edges \in GraphSet
  /\ owner \in Partitions
  /\ comp_id = [f \in F |-> [v \in V |-> NoLabel]]
  /\ curr_modified = [f \in F |-> {}]
  /\ next_modified = [f \in F |-> {}]
  /\ pc = [f \in F |-> "peval"]
  /\ task = [f \in F |-> [v \in V |-> IdleTask]]
  /\ inbox = [f \in F |-> EmptyBag]
  /\ pending = [f \in F |-> EmptyBag]
  /\ outbox = EmptyBag
  /\ force = [f \in F |-> FALSE]
  /\ round = 1
  /\ passStart = [f \in F |-> [v \in V |-> NoLabel]]
  /\ recvStart = [f \in F |-> NoSnapshot]
  /\ late = EmptyBag
  /\ dups = 0
  /\ lateSeen = FALSE
  /\ inserted = [f \in F |-> {}]
  /\ cas = NoCas

\* ------------------------------------------------------- PEval, lines 75-98
\* Lines 83-89: the two initialization loops.  Every entry is written by one
\* thread only and nothing is read, and ForEach joins its threads, so the two
\* loops are one step of the fragment.
\* The loop over the outer vertices (lines 87-89) left out.
InitialLabelsInnerOnly(f) ==
  [v \in V |-> IF v \in InnerVertices(f) THEN GetInnerVertexGid(v) ELSE comp_id[f][v]]

InitialLabels(f) ==
  [v \in V |-> IF v \in InnerVertices(f) THEN GetInnerVertexGid(v)
               ELSE IF v \in OuterVertices(f) THEN GetOuterVertexGid(v)
               ELSE comp_id[f][v]]

InitialFrontier(f) == curr_modified[f] \cup InnerVertices(f)

Initialize(f) ==
  /\ pc[f] = "peval"
  /\ comp_id' = [comp_id EXCEPT ![f] = InitialLabels(f)]
  /\ curr_modified' = [curr_modified EXCEPT ![f] = InitialFrontier(f)]
  /\ passStart' = [passStart EXCEPT ![f] = InitialLabels(f)]
  /\ pc' = [pc EXCEPT ![f] = "push"]
  /\ UNCHANGED <<edges, owner, next_modified, task, inbox, pending, outbox,
                 force, round, recvStart, late, dups, lateSeen, inserted, cas>>

\* ------------------------------------------ PropagateLabelPush, lines 47-72
\* The vertices the first ForEach visits: the bits of curr_modified in the
\* range of the inner vertices (line 53).  curr_modified is not written
\* during the loop, so the set is fixed while pc[f] = "push".
Frontier(f) == curr_modified[f] \cap InnerVertices(f)

\* >= in place of >.
RelaxesOrEqual(x, cid) == x >= cid

\* Line 59: the comparison that guards the relaxation.
Relaxes(x, cid) == x > cid

\* Lines 55-56: the lambda starts on v, reads comp_id[v] and takes v's list.
StartTask(f, v) ==
  /\ pc[f] = "push"
  /\ v \in Frontier(f)
  /\ task[f][v].st = "idle"
  /\ task' = [task EXCEPT ![f][v] =
                [st |-> "loop", cid |-> comp_id[f][v], u |-> 0,
                 todo |-> GetOutgoingAdjList(v)]]
  /\ UNCHANGED <<edges, owner, comp_id, curr_modified, next_modified, pc, inbox,
                 pending, outbox, force, round, passStart, recvStart, late, dups, lateSeen, inserted, cas>>

\* Lines 57-59: the next entry of the adjacency list (the order of the list
\* is the loader's, so any remaining entry may be next) and the comparison.
CheckEdge(f, v, u) ==
  /\ pc[f] = "push"
  /\ task[f][v].st = "loop"
  /\ task[f][v].todo[u] > 0
  /\ task' = [task EXCEPT ![f][v] =
                IF Relaxes(comp_id[f][u], @.cid)
                THEN [@ EXCEPT !.st = "min", !.u = u, !.todo[u] = @ - 1]
                ELSE [@ EXCEPT !.todo[u] = @ - 1]]
  /\ UNCHANGED <<edges, owner, comp_id, curr_modified, next_modified, pc, inbox,
                 pending, outbox, force, round, passStart, recvStart, late, dups, lateSeen, inserted, cas>>

\* Line 60: atomic_min(ctx.comp_id[u], cid).
LowerNeighbor(f, v) ==
  /\ pc[f] = "push"
  /\ task[f][v].st = "min"
  /\ comp_id' = [comp_id EXCEPT ![f][task[f][v].u] = atomic_min(@, task[f][v].cid)]
  /\ task' = [task EXCEPT ![f][v].st = "ins"]
  /\ UNCHANGED <<edges, owner, curr_modified, next_modified, pc, inbox, pending,
                 outbox, force, round, passStart, recvStart, late, dups, lateSeen, inserted, cas>>

\* The vertex inserted into curr_modified in place of next_modified.
InsertNextIntoCurr(f, v) ==
  /\ pc[f] = "push"
  /\ task[f][v].st = "ins"
  /\ curr_modified' = [curr_modified EXCEPT ![f] = @ \cup {task[f][v].u}]
  /\ inserted' = [inserted EXCEPT ![f] = @ \cup {task[f][v].u}]
  /\ task' = [task EXCEPT ![f][v] = [@ EXCEPT !.st = "loop", !.u = 0]]
  /\ UNCHANGED <<edges, owner, comp_id, next_modified, pc, inbox, pending,
                 outbox, force, round, passStart, recvStart, late, dups, lateSeen, cas>>

\* Line 61: ctx.next_modified.Insert(u).
InsertNext(f, v) ==
  /\ pc[f] = "push"
  /\ task[f][v].st = "ins"
  /\ next_modified' = [next_modified EXCEPT ![f] = @ \cup {task[f][v].u}]
  /\ inserted' = [inserted EXCEPT ![f] = @ \cup {task[f][v].u}]
  /\ task' = [task EXCEPT ![f][v] = [@ EXCEPT !.st = "loop", !.u = 0]]
  /\ UNCHANGED <<edges, owner, comp_id, curr_modified, pc, inbox, pending,
                 outbox, force, round, passStart, recvStart, late, dups, lateSeen, cas>>

TaskFinished(f, v) ==
  /\ task[f][v].st = "loop"
  /\ \A u \in V : task[f][v].todo[u] = 0

\* The join at the end of the first ForEach (line 64).
RelaxationDone(f) ==
  /\ pc[f] = "push"
  /\ \A v \in Frontier(f) : TaskFinished(f, v)
  /\ pc' = [pc EXCEPT ![f] = "send"]
  /\ task' = [task EXCEPT ![f] = [v \in V |-> IdleTask]]
  /\ UNCHANGED <<edges, owner, comp_id, curr_modified, next_modified, inbox,
                 pending, outbox, force, round, passStart, recvStart, late, dups, lateSeen, inserted, cas>>

\* The test next_modified.Exist(v) left out.
SyncedAllOuter(f) == OuterVertices(f)

\* Lines 66-71: the vertices SyncStateOnOuterVertex is called for.
SyncedVertices(f) == OuterVertices(f) \cap next_modified[f]

\* The vertex's gid sent in place of its label.
SyncGid(f, v) == [from |-> f, to |-> v, val |-> GetOuterVertexGid(v)]

\* Lines 68-69: the message of outer vertex v.
SyncStateOnOuterVertex(f, v) == [from |-> f, to |-> v, val |-> comp_id[f][v]]

\* The second ForEach (lines 66-71) left out: nothing is sent.
SendNothing(f) == EmptyBag

MessagesToSend(f) == SetToBag({SyncStateOnOuterVertex(f, v) : v \in SyncedVertices(f)})

\* Lines 66-71: the second ForEach only reads the fragment's state and
\* appends to the sending thread's buffer: one step of the fragment.
SendMessages(f) ==
  /\ pc[f] = "send"
  /\ outbox' = outbox (+) MessagesToSend(f)
  /\ pc' = [pc EXCEPT ![f] = "finish"]
  /\ UNCHANGED <<edges, owner, comp_id, curr_modified, next_modified, task, inbox,
                 pending, force, round, passStart, recvStart, late, dups, lateSeen, inserted, cas>>

\* ForceContinue never called.
NeedsContinueNever(f) == FALSE

\* ForceContinue called in every superstep.
NeedsContinueAlways(f) == TRUE

\* Empty() in place of PartialEmpty(0, ivnum): outer vertices count too.
NeedsContinueAny(f) == next_modified[f] # {}

\* Lines 93 and 115: !next_modified.PartialEmpty(0, GetInnerVerticesNum()).
NeedsContinue(f) == next_modified[f] \cap InnerVertices(f) # {}

\* Lines 93-97 and 115-119: ForceContinue and the swap of the two sets.
Finish(f) ==
  /\ pc[f] = "finish"
  /\ force' = [force EXCEPT ![f] = NeedsContinue(f)]
  /\ curr_modified' = [curr_modified EXCEPT ![f] = next_modified[f]]
  /\ next_modified' = [next_modified EXCEPT ![f] = curr_modified[f]]
  /\ pc' = [pc EXCEPT ![f] = "done"]
  /\ UNCHANGED <<edges, owner, comp_id, task, inbox, pending, outbox, round,
                 passStart, recvStart, late, dups, lateSeen, inserted, cas>>

\* ---------------------------------------------------- IncEval, lines 100-120
\* ParallelClear left out: next_modified keeps what the swap put there.
ClearNextOmitted(f) ==
  /\ pc[f] = "inceval"
  /\ recvStart' = [recvStart EXCEPT ![f] =
                     [comp |-> comp_id[f], curr |-> curr_modified[f], inbox |-> inbox[f]]]
  /\ inserted' = [inserted EXCEPT ![f] = {}]
  /\ pc' = [pc EXCEPT ![f] = "process"]
  /\ UNCHANGED <<edges, owner, comp_id, curr_modified, next_modified, task, inbox,
                 pending, outbox, force, round, passStart, late, dups, lateSeen, cas>>

\* Line 102: ctx.next_modified.ParallelClear.
ClearNext(f) ==
  /\ pc[f] = "inceval"
  /\ next_modified' = [next_modified EXCEPT ![f] = {}]
  /\ recvStart' = [recvStart EXCEPT ![f] =
                     [comp |-> comp_id[f], curr |-> curr_modified[f], inbox |-> inbox[f]]]
  /\ inserted' = [inserted EXCEPT ![f] = {}]
  /\ pc' = [pc EXCEPT ![f] = "process"]
  /\ UNCHANGED <<edges, owner, comp_id, curr_modified, task, inbox, pending,
                 outbox, force, round, passStart, late, dups, lateSeen, cas>>

\* >= in place of >.
MsgAppliesOrEqual(x, msg) == x >= msg

\* Line 107: the comparison that guards the application of a message.
MsgApplies(x, msg) == x > msg

\* Lines 106-107: a thread takes a message and compares.
TakeMessage(f, m) ==
  /\ pc[f] = "process"
  /\ BagIn(m, inbox[f])
  /\ inbox' = [inbox EXCEPT ![f] = @ (-) SetToBag({m})]
  /\ pending' = [pending EXCEPT ![f] =
                   IF MsgApplies(comp_id[f][m.to], m.val)
                   THEN @ (+) SetToBag({[to |-> m.to, val |-> m.val, st |-> "min"]})
                   ELSE @]
  /\ UNCHANGED <<edges, owner, comp_id, curr_modified, next_modified, pc, task,
                 outbox, force, round, passStart, recvStart, late, dups, lateSeen, inserted, cas>>

\* Line 108: atomic_min(ctx.comp_id[u], msg).
ApplyMessage(f, m) ==
  /\ pc[f] = "process"
  /\ BagIn(m, pending[f])
  /\ m.st = "min"
  /\ comp_id' = [comp_id EXCEPT ![f][m.to] = atomic_min(@, m.val)]
  /\ pending' = [pending EXCEPT ![f] =
                   (@ (-) SetToBag({m})) (+) SetToBag({[m EXCEPT !.st = "ins"]})]
  /\ UNCHANGED <<edges, owner, curr_modified, next_modified, pc, task, inbox,
                 outbox, force, round, passStart, recvStart, late, dups, lateSeen, inserted, cas>>

\* Line 109: ctx.curr_modified.Insert(u).
InsertCurr(f, m) ==
  /\ pc[f] = "process"
  /\ BagIn(m, pending[f])
  /\ m.st = "ins"
  /\ curr_modified' = [curr_modified EXCEPT ![f] = @ \cup {m.to}]
  /\ pending' = [pending EXCEPT ![f] = @ (-) SetToBag({m})]
  /\ UNCHANGED <<edges, owner, comp_id, next_modified, pc, task, inbox, outbox,
                 force, round, passStart, recvStart, late, dups, lateSeen, inserted, cas>>

\* The join at the end of ParallelProcess (line 111); line 113 starts the pass.
ProcessDone(f) ==
  /\ pc[f] = "process"
  /\ inbox[f] = EmptyBag
  /\ pending[f] = EmptyBag
  /\ passStart' = [passStart EXCEPT ![f] = comp_id[f]]
  /\ pc' = [pc EXCEPT ![f] = "push"]
  /\ UNCHANGED <<edges, owner, comp_id, curr_modified, next_modified, task, inbox,
                 pending, outbox, force, round, recvStart, late, dups, lateSeen, inserted, cas>>

\* ------------------------------------------------------------- the driver
\* The worker loop around PEval and IncEval: after every fragment has ended
\* its superstep, the computation stops when no fragment called ForceContinue
\* and no message was sent; otherwise the messages are delivered to the owners
\* of their vertices and every fragment runs IncEval.
ToTerminate == (\A f \in Frags : ~force[f]) /\ outbox = EmptyBag

Delivered(f) ==
  LET D == {m \in BagToSet(outbox) : owner[m.to] = f}
  IN  [m \in D |-> CopiesIn(m, outbox)]

Terminate ==
  /\ \A f \in Frags : pc[f] = "done"
  /\ ToTerminate
  /\ pc' = [f \in F |-> IF f \in Frags THEN "halt" ELSE pc[f]]
  /\ UNCHANGED <<edges, owner, comp_id, curr_modified, next_modified, task, inbox,
                 pending, outbox, force, round, passStart, recvStart, late, dups, lateSeen, inserted, cas>>

NextSuperstep ==
  /\ \A f \in Frags : pc[f] = "done"
  /\ ~ToTerminate
  /\ round < MaxRound
  /\ inbox' = [f \in F |-> Delivered(f)]
  /\ outbox' = EmptyBag
  /\ force' = [f \in F |-> FALSE]
  /\ round' = round + 1
  /\ pc' = [f \in F |-> IF f \in Frags THEN "inceval" ELSE pc[f]]
  /\ UNCHANGED <<edges, owner, comp_id, curr_modified, next_modified, task,
                 pending, passStart, recvStart, late, dups, lateSeen, inserted, cas>>

Terminated == \A f \in Frags : pc[f] = "halt"

Next ==
  \/ \E f \in Frags : Initialize(f)
  \/ \E f \in Frags, v \in V : StartTask(f, v)
  \/ \E f \in Frags, v \in V, u \in V : CheckEdge(f, v, u)
  \/ \E f \in Frags, v \in V : LowerNeighbor(f, v)
  \/ \E f \in Frags, v \in V : InsertNext(f, v)
  \/ \E f \in Frags : RelaxationDone(f)
  \/ \E f \in Frags : SendMessages(f)
  \/ \E f \in Frags : Finish(f)
  \/ \E f \in Frags : ClearNext(f)
  \/ \E f \in Frags : \E m \in BagToSet(inbox[f]) : TakeMessage(f, m)
  \/ \E f \in Frags : \E m \in BagToSet(pending[f]) : ApplyMessage(f, m)
  \/ \E f \in Frags : \E m \in BagToSet(pending[f]) : InsertCurr(f, m)
  \/ \E f \in Frags : ProcessDone(f)
  \/ NextSuperstep
  \/ Terminate

Spec == Init /\ [][Next]_vars

\* Every thread that can take a step eventually takes one, and so does the
\* driver: ForEach and ParallelProcess run every task to its end, and a
\* superstep always runs to completion.
FairSpec == Spec /\ WF_vars(Next)

\* ------------------------------------------- a channel that delivers again
\* At-least-once delivery: the channel copies a message it has delivered to a
\* fragment, at most MaxDup times in a run.  The copy is delivered while the
\* fragment applies messages, in the same superstep or in a later one.
Duplicate(f, m) ==
  /\ pc[f] = "process"
  /\ BagIn(m, inbox[f])
  /\ dups < MaxDup
  /\ late' = late (+) SetToBag({[msg |-> m, sent |-> round]})
  /\ dups' = dups + 1
  /\ UNCHANGED <<edges, owner, comp_id, curr_modified, next_modified, pc, task,
                 inbox, pending, outbox, force, round, passStart, recvStart,
                 lateSeen, inserted, cas>>

Redeliver(c) ==
  /\ BagIn(c, late)
  /\ pc[owner[c.msg.to]] = "process"
  /\ late' = late (-) SetToBag({c})
  /\ inbox' = [inbox EXCEPT ![owner[c.msg.to]] = @ (+) SetToBag({c.msg})]
  /\ lateSeen' = (lateSeen \/ c.sent < round)
  /\ UNCHANGED <<edges, owner, comp_id, curr_modified, next_modified, pc, task,
                 pending, outbox, force, round, passStart, recvStart, dups, inserted,
                 cas>>

NextDup ==
  \/ Next
  \/ \E f \in Frags : \E m \in BagToSet(inbox[f]) : Duplicate(f, m)
  \/ \E c \in BagToSet(late) : Redeliver(c)

SpecDup == Init /\ [][NextDup]_vars

\* The channel may or may not copy; the threads and the driver run as above.
FairSpecDup == SpecDup /\ WF_vars(Next)

\* ------------------------------------ the same code on a single partition
\* One fragment holds every vertex and one thread runs the loops: the ForEach
\* of PropagateLabelPush visits the frontier in ascending order, there are no
\* outer vertices and no messages.
\* Lines 55-63 for one v: cid is read once, every neighbour with a larger
\* label is lowered to cid and inserted into next_modified.
RelaxFrom(st, v) ==
  LET cid == st.comp[v]
      L == {u \in V : GetOutgoingAdjList(v)[u] > 0 /\ Relaxes(st.comp[u], cid)}
  IN  [comp |-> [u \in V |-> IF u \in L THEN atomic_min(st.comp[u], cid) ELSE st.comp[u]],
       next |-> st.next \cup L]

\* Lines 53-64: the loop over the frontier.
RECURSIVE SeqPass(_, _)
SeqPass(st, todo) ==
  IF todo = {} THEN st
  ELSE LET v == MinOf(todo) IN SeqPass(RelaxFrom(st, v), todo \ {v})

\* Lines 100-120 run until ForceContinue is not called: next_modified is
\* cleared, the pass runs on curr_modified, the sets are swapped.
RECURSIVE SeqIncEval(_, _)
SeqIncEval(comp, curr) ==
  LET r == SeqPass([comp |-> comp, next |-> {}], curr)
  IN  IF r.next = {} THEN r.comp ELSE SeqIncEval(r.comp, r.next)

\* Lines 83-98 and then IncEval: every vertex starts with its gid and in
\* curr_modified.
SinglePartitionLabels == SeqIncEval([v \in V |-> GetInnerVertexGid(v)], V)

\* ------------------------------------------- atomic_min as a retry loop
\* atomic_min(a, b) read as a loop: read the entry, stop when it is already
\* <= b, otherwise compare-and-exchange the value read for b and start over
\* when the exchange fails.  MaxThreads threads run it on one entry, each with
\* its own candidate; two threads may hold the same candidate.
Threads == 1..MaxThreads

\* A store that does not compare.
StoreUnconditionally(cell, expected, new) == new

\* The entry after compare-and-exchange of expected for new.
CompareExchange(cell, expected, new) == IF cell = expected THEN new ELSE cell

InitAtomicMin ==
  /\ edges = [p \in Pairs |-> 0]
  /\ owner = [v \in V |-> 1]
  /\ comp_id = [f \in F |-> [v \in V |-> NoLabel]]
  /\ curr_modified = [f \in F |-> {}]
  /\ next_modified = [f \in F |-> {}]
  /\ pc = [f \in F |-> "peval"]
  /\ task = [f \in F |-> [v \in V |-> IdleTask]]
  /\ inbox = [f \in F |-> EmptyBag]
  /\ pending = [f \in F |-> EmptyBag]
  /\ outbox = EmptyBag
  /\ force = [f \in F |-> FALSE]
  /\ round = 1
  /\ passStart = [f \in F |-> [v \in V |-> NoLabel]]
  /\ recvStart = [f \in F |-> NoSnapshot]
  /\ late = EmptyBag
  /\ dups = 0
  /\ lateSeen = FALSE
  /\ inserted = [f \in F |-> {}]
  /\ \E x \in V : \E c \in [Threads -> V] :
       cas = [cell |-> x, init |-> x,
              thr |-> [t \in Threads |->
                         [st |-> "read", cand |-> c[t], cur |-> NoLabel, failed |-> FALSE]]]

\* The thread reads the entry and compares it with its candidate.
CasRead(t) ==
  /\ cas.thr[t].st = "read"
  /\ cas' = [cas EXCEPT !.thr[t] =
               IF cas.cell > @.cand
               THEN [@ EXCEPT !.st = "cas", !.cur = cas.cell]
               ELSE [@ EXCEPT !.st = "done", !.cur = NoLabel]]
  /\ UNCHANGED <<edges, owner, comp_id, curr_modified, next_modified, pc, task,
                 inbox, pending, outbox, force, round, passStart, recvStart, late,
                 dups, lateSeen, inserted>>

\* The thread's compare-and-exchange: it ends the loop when the entry still
\* held the value read, and sends the thread back to the read otherwise.
CasSwap(t) ==
  /\ cas.thr[t].st = "cas"
  /\ cas' = [cas EXCEPT
               !.cell = CompareExchange(@, cas.thr[t].cur, cas.thr[t].cand),
               !.thr[t] = IF cas.cell = @.cur
                          THEN [@ EXCEPT !.st = "done", !.cur = NoLabel]
                          ELSE [@ EXCEPT !.st = "read", !.cur = NoLabel, !.failed = TRUE]]
  /\ UNCHANGED <<edges, owner, comp_id, curr_modified, next_modified, pc, task,
                 inbox, pending, outbox, force, round, passStart, recvStart, late,
                 dups, lateSeen, inserted>>

NextAtomicMin ==
  \/ \E t \in Threads : CasRead(t)
  \/ \E t \in Threads : CasSwap(t)

SpecAtomicMin == InitAtomicMin /\ [][NextAtomicMin]_vars

\* ================================================================ claims
\* The vertices connected to v by an undirected path.
RECURSIVE Grow(_)
Grow(S) ==
  LET T == S \cup {u \in V : \E w \in S : Mult(w, u) > 0}
  IN  IF T = S THEN S ELSE Grow(T)

Component(v) == Grow({v})

MinGid(v) == MinOf(Component(v))

\* C1: when the driver has stopped (no fragment called ForceContinue and no
\* message was sent in the last superstep), comp_id[v] of every inner vertex v
\* is the smallest gid among the vertices connected to v by an undirected path.
C1_ConvergenceCorrect ==
  Terminated => \A v \in V : comp_id[owner[v]][v] = MinGid(v)

\* A run has ended in which a label crossed fragments and travelled more than
\* one edge: the path 2 - 3 - 1 with the three vertices in three fragments.
C1_Witness ==
  /\ Terminated
  /\ Cardinality(Frags) = 3
  /\ Mult(2, 3) > 0 /\ Mult(1, 3) > 0 /\ Mult(1, 2) = 0
  /\ round >= 3
  /\ comp_id[owner[2]][2] = 1

\* C3: after the initialization loops of PEval, no step of any thread of any
\* fragment raises a comp_id entry, of an inner or of an outer vertex.
C3_LabelsNeverIncrease ==
  [][\A f \in Frags : \A v \in Vertices(f) :
       pc[f] # "peval" => comp_id'[f][v] <= comp_id[f][v]]_vars

\* Both kinds of lowering have happened at one fragment: a message lowered an
\* inner vertex in this superstep and a relaxation then lowered another vertex.
C3_Witness ==
  \E f \in Frags :
    /\ pc[f] = "push"
    /\ \E v \in InnerVertices(f) : passStart[f][v] < recvStart[f].comp[v]
    /\ \E u \in Vertices(f) : comp_id[f][u] < passStart[f][u]

\* C7: between the initialization loops of PEval and the propagation pass,
\* comp_id[v] is gid(v) for every inner and outer vertex of the fragment,
\* curr_modified holds exactly the inner vertices and no message has been read.
C7_AfterInitialization ==
  \A f \in Frags :
    (round = 1 /\ pc[f] = "push" /\ \A v \in V : task[f][v].st = "idle") =>
      /\ \A v \in InnerVertices(f) : comp_id[f][v] = GetInnerVertexGid(v)
      /\ \A v \in OuterVertices(f) : comp_id[f][v] = GetOuterVertexGid(v)
      /\ curr_modified[f] = InnerVertices(f)
      /\ inbox[f] = EmptyBag /\ pending[f] = EmptyBag
      /\ recvStart[f] = NoSnapshot

\* A fragment with inner and outer vertices stands between the loops and the pass.
C7_Witness ==
  \E f \in Frags :
    /\ round = 1 /\ pc[f] = "push" /\ \A v \in V : task[f][v].st = "idle"
    /\ Cardinality(InnerVertices(f)) >= 2
    /\ OuterVertices(f) # {}

\* The messages of the running superstep that fragment f sent.
SentBy(f) ==
  LET D == {m \in BagToSet(outbox) : m.from = f}
  IN  [m \in D |-> CopiesIn(m, outbox)]

\* next_modified as the relaxation loop of the running superstep left it (the
\* swap at the end of the superstep moves it to curr_modified).
Staged(f) == IF pc[f] = "done" THEN curr_modified[f] ELSE next_modified[f]

\* C9: from the message loop to the end of its superstep a fragment has sent
\* exactly one message for each outer vertex v in next_modified, addressed to
\* v and carrying comp_id[v] as the relaxations left it; before the message
\* loop, and for any other vertex, it has sent nothing.
C9_MessagesSent ==
  \A f \in Frags :
    SentBy(f) =
      IF pc[f] \in {"finish", "done"}
      THEN SetToBag({[from |-> f, to |-> v, val |-> comp_id[f][v]] :
                       v \in OuterVertices(f) \cap Staged(f)})
      ELSE EmptyBag

\* A fragment has sent a message for an outer vertex in next_modified, while an
\* inner vertex is in next_modified as well and got no message.
C9_Witness ==
  \E f \in Frags :
    /\ pc[f] = "finish"
    /\ \E v \in OuterVertices(f) : v \in next_modified[f]
    /\ \E v \in InnerVertices(f) : v \in next_modified[f]
    /\ SentBy(f) # EmptyBag

\* C10: a fragment has called ForceContinue exactly when it is at the end of
\* its superstep and next_modified (curr_modified after the swap) holds an
\* inner vertex; outer vertices in the set do not count.
C10_ForceContinue ==
  \A f \in Frags :
    force[f] <=> (pc[f] = "done" /\ Staged(f) \cap InnerVertices(f) # {})

\* A superstep of IncEval ended with only outer vertices in next_modified and
\* without ForceContinue.
C10_Witness ==
  \E f \in Frags :
    /\ pc[f] = "done" /\ round >= 2
    /\ ~force[f]
    /\ Staged(f) # {}
    /\ Staged(f) \subseteq OuterVertices(f)

\* C2: every run reaches the end: a superstep after which no fragment has
\* called ForceContinue and no message was sent, so that the driver stops.
C2_Terminates == <>Terminated

\* The driver has stopped after at least three supersteps on a graph whose
\* vertices are spread over three fragments.
C2_Witness ==
  /\ Terminated
  /\ round >= 3
  /\ Cardinality(Frags) = 3
  /\ \A f \in Frags : ~force[f]
  /\ outbox = EmptyBag

\* C4: the comp_id assignment at the end (inner and outer entries of every
\* fragment) is a function of the graph and the partitioning alone: every
\* entry holds the smallest gid of its vertex's component, whichever way the
\* threads interleaved and the messages of a superstep were taken.
C4_ResultDeterministic ==
  Terminated => \A f \in Frags : \A v \in Vertices(f) : comp_id[f][v] = MinGid(v)

\* A thread is about to push the label it read from a frontier vertex after
\* another thread has lowered that vertex.
C4_Witness ==
  \E f \in Frags : \E v \in V :
    /\ task[f][v].st = "min"
    /\ task[f][v].cid > comp_id[f][v]

\* C5: whatever the assignment of the vertices to fragments, the label of
\* every vertex at its owner at the end is the label the same code computes
\* with the whole graph in one fragment.
C5_PartitionInvariant ==
  Terminated => \A v \in V : comp_id[owner[v]][v] = SinglePartitionLabels[v]

\* A run on more than one fragment has ended in which a vertex got its label
\* from a vertex of another fragment.
C5_Witness ==
  /\ Terminated
  /\ \E v \in V :
       /\ comp_id[owner[v]][v] < v
       /\ \A u \in V : Mult(u, v) > 0 => owner[u] # owner[v]

\* C6: with a channel that delivers messages more than once, every run still
\* ends, and it ends with every comp_id entry at the smallest gid of its
\* vertex's component, as under exactly-once delivery.
C6_DuplicatesHarmless ==
  /\ <>Terminated
  /\ [](Terminated => \A f \in Frags : \A v \in Vertices(f) : comp_id[f][v] = MinGid(v))

\* A run has ended in which a copy was delivered in a later superstep than
\* its original.
C6_Witness == Terminated /\ lateSeen /\ late = EmptyBag

\* The labels of the messages delivered to f for u in the running superstep.
LabelsFor(f, u) == {m.val : m \in {x \in BagToSet(recvStart[f].inbox) : x.to = u}}

\* C8: when a fragment has applied the messages of a superstep, comp_id[u] is
\* the minimum of its value before and of the labels addressed to u, and u
\* has been inserted into curr_modified exactly if one of these labels was
\* smaller than comp_id[u] was before.
C8_MessageApplication ==
  \A f \in Frags :
    (pc[f] = "process" /\ inbox[f] = EmptyBag /\ pending[f] = EmptyBag) =>
      \A u \in V :
        LET prev == recvStart[f].comp[u]
        IN  /\ comp_id[f][u] = MinOf({prev} \cup LabelsFor(f, u))
            /\ u \in curr_modified[f] <=>
                 (u \in recvStart[f].curr \/ \E l \in LabelsFor(f, u) : l < prev)

\* A fragment has applied two messages with different labels for one vertex,
\* both smaller than the vertex's label, and the vertex was not in
\* curr_modified before.
C8_Witness ==
  \E f \in Frags :
    /\ pc[f] = "process" /\ inbox[f] = EmptyBag /\ pending[f] = EmptyBag
    /\ \E u \in V :
         /\ u \notin recvStart[f].curr
         /\ Cardinality(LabelsFor(f, u)) = 2
         /\ \A l \in LabelsFor(f, u) : l < recvStart[f].comp[u]

\* A fragment has applied a message whose label was not smaller than the
\* vertex's label; the vertex is not in curr_modified.
C8_NotSmallerReached ==
  \E f \in Frags :
    /\ pc[f] = "process" /\ inbox[f] = EmptyBag /\ pending[f] = EmptyBag
    /\ \E u \in V :
         /\ LabelsFor(f, u) # {}
         /\ \A l \in LabelsFor(f, u) : l >= recvStart[f].comp[u]
         /\ u \notin curr_modified[f]

\* Two messages for one vertex with different labels have both passed the
\* comparison of line 107 and wait for atomic_min.
C4_MessageRaceReached ==
  \E f \in Frags : \E m1, m2 \in BagToSet(pending[f]) :
    m1.to = m2.to /\ m1.val # m2.val /\ m1.st = "min" /\ m2.st = "min"

\* C11: when the driver has stopped, the last superstep left next_modified
\* (curr_modified after the swap) empty at every fragment, inner and outer
\* vertices included; and from then on no comp_id entry changes.
C11_ConvergedIsQuiescent ==
  /\ [](Terminated => \A f \in Frags : curr_modified[f] = {} /\ inserted[f] = {})
  /\ [][Terminated => (Terminated' /\ comp_id' = comp_id)]_vars

\* The driver has stopped after supersteps of IncEval in which labels were
\* lowered at two fragments.
C11_Witness ==
  /\ Terminated
  /\ round >= 2
  /\ \A f \in Frags : curr_modified[f] = {}
  /\ \E f, g \in Frags :
       /\ f # g
       /\ \E v \in InnerVertices(f) : comp_id[f][v] < v
       /\ \E v \in OuterVertices(g) : comp_id[g][v] < v

Isolated(v) == \A u \in V : Mult(v, u) = 0

\* C12: a vertex without edges keeps its gid as label from the initialization
\* on, is never the target of a relaxation and is in no next_modified a
\* superstep builds; in a graph without edges no message is sent, no fragment
\* calls ForceContinue and no superstep follows PEval.
C12_IsolatedVertices ==
  /\ \A v \in V : Isolated(v) =>
       /\ pc[owner[v]] # "peval" => comp_id[owner[v]][v] = GetInnerVertexGid(v)
       /\ \A f \in Frags :
            /\ v \notin inserted[f]
            /\ pc[f] \in {"process", "push", "send", "finish", "done"} => v \notin Staged(f)
            /\ \A w \in V : task[f][w].u # v
  /\ (\A v \in V : Isolated(v)) =>
       /\ round = 1
       /\ outbox = EmptyBag
       /\ \A f \in Frags : ~force[f]

\* PEval has ended at two fragments of a graph without edges, and the driver
\* has stopped.
C12_Witness ==
  /\ \A v \in V : Isolated(v)
  /\ Cardinality(Frags) = 2
  /\ Terminated

\* A graph with an edge between two fragments and an isolated vertex: the run
\* has ended after a superstep of IncEval and the isolated vertex has its gid.
C12_MixedReached ==
  /\ Terminated /\ round >= 2
  /\ \E v \in V : Isolated(v) /\ comp_id[owner[v]][v] = v

\* C13 as claimed: from the entry of IncEval to the swap at its end no step
\* changes curr_modified.
C13_CurrReadOnly ==
  [][\A f \in Frags :
       pc[f] \in {"inceval", "process", "push", "send"} =>
         curr_modified'[f] = curr_modified[f]]_vars

\* C13, amended: curr_modified is not changed from the start of the
\* propagation pass to the swap, nor by ParallelClear; while the messages are
\* applied, vertices are inserted into it (line 109: the targets of messages
\* that lowered a label) and none is removed.
C13_CurrReadOnlyInPass ==
  [][\A f \in Frags :
       /\ pc[f] \in {"inceval", "push", "send"} => curr_modified'[f] = curr_modified[f]
       /\ pc[f] = "process" =>
            /\ curr_modified[f] \subseteq curr_modified'[f]
            /\ curr_modified'[f] \ curr_modified[f] \subseteq
                 {m.to : m \in {x \in BagToSet(pending[f]) : x.st = "ins"}}]_vars

\* Message application has inserted a vertex into curr_modified, and the
\* propagation pass of that superstep is pushing from it.
C13_Witness ==
  \E f \in Frags : \E v \in InnerVertices(f) :
    /\ round >= 2 /\ pc[f] = "push"
    /\ v \in curr_modified[f] \ recvStart[f].curr
    /\ passStart[f][v] < recvStart[f].comp[v]
    /\ task[f][v].st = "min"

\* C14 as claimed: after the initialization, an outer vertex's comp_id changes
\* only in the application of a message addressed to it.
C14_OuterOnlyByMessages ==
  [][\A f \in Frags : \A v \in OuterVertices(f) :
       (pc[f] # "peval" /\ comp_id'[f][v] # comp_id[f][v]) =>
         /\ pc[f] = "process"
         /\ \E m \in BagToSet(pending[f]) : m.to = v]_vars

\* C14, amended: after the initialization, an outer vertex's comp_id changes
\* only by a relaxation of the fragment's own propagation pass (line 60), which
\* lowers it to the label read from an inner neighbour in the frontier; the
\* messages a fragment receives are addressed to its inner vertices only.
C14_OuterOnlyByRelaxation ==
  /\ [][\A f \in Frags : \A v \in OuterVertices(f) :
          (pc[f] # "peval" /\ comp_id'[f][v] # comp_id[f][v]) =>
            /\ pc[f] = "push"
            /\ comp_id'[f][v] < comp_id[f][v]
            /\ \E w \in Frontier(f) :
                 /\ Mult(w, v) > 0
                 /\ task[f][w].st = "min" /\ task[f][w].u = v
                 /\ comp_id'[f][v] = task[f][w].cid]_vars
  /\ [](\A f \in Frags : \A m \in BagToSet(inbox[f]) \cup BagToSet(pending[f]) :
          m.to \in InnerVertices(f))

\* In a superstep of IncEval a relaxation has lowered an outer vertex while
\* the fragment had received messages in that superstep.
C14_Witness ==
  \E f \in Frags : \E v \in OuterVertices(f) :
    /\ round >= 2 /\ pc[f] = "push"
    /\ comp_id[f][v] < passStart[f][v]
    /\ recvStart[f].inbox # EmptyBag

\* The candidates applied one after the other with the atomic_min of the model.
RECURSIVE SeqAtomicMin(_, _)
SeqAtomicMin(x, k) ==
  IF k = 0 THEN x ELSE atomic_min(SeqAtomicMin(x, k - 1), cas.thr[k].cand)

AllDone == \A t \in Threads : cas.thr[t].st = "done"

\* C15: when all threads have left atomic_min, the entry holds the minimum of
\* its first value and of all candidates, which is what the calls give one
\* after the other; a thread that has left with candidate c leaves the entry
\* <= c, and a call with a candidate that another thread has already applied
\* does not change the entry.
C15_AtomicMinLoop ==
  /\ [](AllDone =>
          /\ cas.cell = MinOf({cas.init} \cup {cas.thr[t].cand : t \in Threads})
          /\ cas.cell = SeqAtomicMin(cas.init, MaxThreads))
  /\ [](\A t \in Threads : cas.thr[t].st = "done" => cas.cell <= cas.thr[t].cand)
  /\ [][\A t \in Threads :
          (cas.thr'[t] # cas.thr[t] /\
           \E t2 \in Threads \ {t} :
             cas.thr[t2].st = "done" /\ cas.thr[t2].cand = cas.thr[t].cand)
          => cas.cell' = cas.cell]_vars

\* All threads have left; two of them had the same candidate, one thread's
\* compare-and-exchange had failed, and the entry was lowered.
C15_Witness ==
  /\ AllDone
  /\ cas.cell < cas.init
  /\ \E t \in Threads : cas.thr[t].failed
  /\ \E t1, t2 \in Threads : t1 # t2 /\ cas.thr[t1].cand = cas.thr[t2].cand

\* The propagation pass of the fragment is about to start: no lambda has begun.
PassStarts(f) == pc[f] = "push" /\ \A v \in V : task[f][v].st = "idle"

\* C16: at the entry of an incremental superstep curr_modified is exactly the
\* set of vertices next_modified.Insert was called with in the superstep
\* before, and next_modified is empty while the messages are applied and when
\* the propagation pass starts.
C16_FrontierHandover ==
  \A f \in Frags :
    /\ pc[f] = "inceval" => curr_modified[f] = inserted[f]
    /\ (pc[f] = "process" \/ PassStarts(f)) => next_modified[f] = {}

\* The third superstep is entered with a frontier that differs from the one
\* of the superstep before, which the swap has left in next_modified.
C16_Witness ==
  \E f \in Frags :
    /\ round >= 3 /\ pc[f] = "inceval"
    /\ curr_modified[f] # {}
    /\ next_modified[f] # {}
    /\ next_modified[f] # curr_modified[f]

\* The vertices within k edges of v on an undirected path.
RECURSIVE Ball(_, _)
Ball(v, k) ==
  IF k = 0 THEN {v}
  ELSE LET B == Ball(v, k - 1)
       IN  B \cup {u \in V : \E w \in B : Mult(w, u) > 0}

\* The number of edges on a shortest path between two connected vertices.
Dist(u, v) == MinOf({k \in 0..NumV : v \in Ball(u, k)})

\* The largest number of edges on a shortest path between two connected
\* vertices.
Diameter ==
  MaxOf({Dist(p[1], p[2]) : p \in {q \in V \X V : q[2] \in Component(q[1])}})

\* C17: the number of supersteps, PEval counted as the first, never exceeds
\* the diameter of the graph plus 2.
C17_SuperstepBound == round <= Diameter + 2

\* The driver has stopped after exactly diameter + 2 supersteps on a graph
\* with a path of two edges.
C17_Witness == Terminated /\ Diameter >= 2 /\ round = Diameter + 2

C17_ShortReached == Terminated /\ Diameter = 1 /\ round = 3

\* C18: when the relaxation loop of a pass has ended, next_modified holds
\* exactly the vertices, inner and outer, whose comp_id is smaller than at the
\* start of the pass.
C18_NextIsLowered ==
  \A f \in Frags :
    pc[f] = "send" =>
      next_modified[f] = {v \in V : comp_id[f][v] < passStart[f][v]}

\* An incremental pass has ended with a vertex lowered and another vertex of
\* the fragment, which is in the frontier, left as it was.
C18_Witness ==
  \E f \in Frags :
    /\ round >= 2 /\ pc[f] = "send"
    /\ next_modified[f] # {}
    /\ curr_modified[f] \ next_modified[f] # {}

\* A pass has ended with an inner and an outer vertex lowered.
C18_BothKindsReached ==
  \E f \in Frags :
    /\ pc[f] = "send"
    /\ next_modified[f] \cap InnerVertices(f) # {}
    /\ next_modified[f] \cap OuterVertices(f) # {}

\* x is the gid of a vertex of v's component, and no larger than v's gid.
ValidLabel(v, x) ==
  /\ x \in {GetInnerVertexGid(w) : w \in Component(v)}
  /\ x <= GetInnerVertexGid(v)
  /\ x >= MinGid(v)

\* The messages of the running superstep: sent, delivered, or being applied.
InFlight ==
  BagToSet(outbox) \cup UNION {BagToSet(inbox[f]) \cup BagToSet(pending[f]) : f \in Frags}

\* C19: once a fragment is initialized, the label of each of its inner and
\* outer vertices, and the value of every message in flight, is the gid of a
\* vertex in the same component as the vertex it belongs to, and is at most
\* that vertex's gid.
C19_LabelsStayInComponent ==
  /\ \A f \in Frags :
       pc[f] # "peval" => \A v \in Vertices(f) : ValidLabel(v, comp_id[f][v])
  /\ \A m \in InFlight : ValidLabel(m.to, m.val)

\* A message has been delivered with a label below its vertex's gid that is
\* not the smallest gid of the graph: a vertex of another component has a
\* smaller one.
C19_Witness ==
  \E f \in Frags : \E m \in BagToSet(inbox[f]) :
    /\ round >= 2
    /\ m.val < m.to
    /\ \E w \in V \ Component(m.to) : w < m.val

\* C20: when the driver has stopped, the label of every outer vertex at a
\* fragment equals the label of that vertex at its owner, and every message
\* ever sent went from a fragment holding the vertex as outer vertex to the
\* vertex's owner, never from the owner to a mirror.
C20_MirrorsAgree ==
  /\ Terminated =>
       \A f \in Frags : \A m \in OuterVertices(f) :
         comp_id[f][m] = comp_id[owner[m]][m]
  /\ \A m \in BagToSet(outbox) : m.to \in OuterVertices(m.from)
  /\ \A f \in Frags : \A m \in BagToSet(inbox[f]) :
       owner[m.to] = f /\ m.to \in OuterVertices(m.from)

\* The driver has stopped after three supersteps or more, and a fragment holds
\* for an outer vertex a label below the vertex's gid.
C20_Witness ==
  /\ Terminated
  /\ round >= 3
  /\ \E f \in Frags : \E m \in OuterVertices(f) : comp_id[f][m] < GetOuterVertexGid(m)

====
